---- MODULE Spec2Model ----
(***************************************************************************)
(* A model of the UV dashboard (Dashboard component): the normalisation    *)
(* of raw forecast records (normalizePoint), the fetch handler that        *)
(* builds and stores the forecast series (fetchUVData), the 24-point       *)
(* window (getForecast24h) and the colour segmentation of the chart        *)
(* (splitIntoSegments).                                                    *)
(*                                                                         *)
(* Numbers.  TLC's integers are 32 bits wide, while the code compares      *)
(* timestamps with 1e9 and 1e12 and a Date holds at most 8.64e15 ms.       *)
(* Every number that denotes a time is therefore written in multiples of   *)
(* 10^9: the number 1e9 is 1, 1e12 is 1000, 8.64e15 is 8640000.  Every     *)
(* number that denotes a UV value is written in multiples of 1/UVUnit.     *)
(***************************************************************************)
EXTENDS Integers, Sequences, FiniteSets, TLC

\* ------------------------------------------------------------------ bounds
\* Longest raw forecast array of a response.
MaxLen == 3
\* Longest chart series given to splitIntoSegments.
MaxData == 5
\* Most calls of fetchUVData in flight at once, and in one behaviour.
MaxInflight == 2
MaxFetches == 2
\* Longest raw forecast array of the responses the window is examined on.
MaxRaw == 26
\* Largest minutes prop of the timer, and how often the prop changes.
MaxMinutes == 2
MaxPropChanges == 2
\* Model units per 1.0 of UV index (2: halves are representable).
UVUnit == 2
\* Shift between local wall-clock time and UTC of the browser's time zone.
TzShift == 1

\* ------------------------------------------------- constants of the code
\* 1e9 (line 124) and 1e12 (line 123), in multiples of 10^9.
E9 == 1
E12 == 1000
\* Largest time value a Date can hold: 8.64e15 ms, in multiples of 10^9.
MaxDate == 8640000
\* The length of the forecast window (line 248).
WindowSize == 24
\* minutes * 60 (time-to-burn-timer.tsx, lines 14 and 18).
SecondsPerMinute == 60

\* --------------------------------------------------- JavaScript values
\* A value of the deserialised JSON (or undefined, for an absent key):
\*   t: the type; n: the magnitude of a number, or what a string denotes;
\*   k: "fin" | "inf" for a number (JSON.parse("1e999") is Infinity);
\*      for a string, how Date and Number read it:
\*        "canon"    the text toISOString produces for the instant n
\*                   (YYYY-MM-DDTHH:mm:ss.sssZ)
\*        "isoZ"     any other date-time with a zone designator, instant n
\*        "isoLocal" a date-time without zone, wall-clock n, read as local
\*        "needsZ"   text Date rejects as it is and accepts with "Z" added
\*        "numeric"  a decimal numeral of value n
\*        "garbage"  text neither Date nor Number accepts
\*        "empty"    the empty string
Undef == [t |-> "undef", n |-> 0, k |-> ""]
Null == [t |-> "null", n |-> 0, k |-> ""]
Num(n) == [t |-> "num", n |-> n, k |-> "fin"]
Inf == [t |-> "num", n |-> 1, k |-> "inf"]
Str(k, n) == [t |-> "str", n |-> n, k |-> k]
Bool(b) == [t |-> "bool", n |-> IF b THEN 1 ELSE 0, k |-> ""]
Obj == [t |-> "obj", n |-> 0, k |-> ""]
Arr == [t |-> "arr", n |-> 0, k |-> ""]

\* A time value (the result of Date.prototype.getTime) or a Number result.
NaN == [k |-> "nan", n |-> 0]
Fin(n) == [k |-> "fin", n |-> n]
Infinite == [k |-> "inf", n |-> 1]

\* a ?? b
Coalesce(a, b) == IF a.t \in {"undef", "null"} THEN b ELSE a

\* !v
Falsy(v) ==
    \/ v.t \in {"undef", "null"}
    \/ v.t = "bool" /\ v.n = 0
    \/ v.t = "num" /\ v.k = "fin" /\ v.n = 0
    \/ v.t = "str" /\ v.k = "empty"

\* TimeClip: a time value outside +-8.64e15 ms makes the Date invalid.
TimeClip(n) == IF n > MaxDate \/ n < -MaxDate THEN NaN ELSE Fin(n)

\* DateParse reading the canonical text as local time, not as UTC.
DateParse_CanonAsLocal(s) ==
    CASE s.k = "isoZ" -> TimeClip(s.n)
      [] s.k \in {"canon", "isoLocal"} -> TimeClip(s.n + TzShift)
      [] OTHER -> NaN

\* Date.parse(s) for a string s.
DateParse(s) ==
    CASE s.k \in {"canon", "isoZ"} -> TimeClip(s.n)
      [] s.k = "isoLocal" -> TimeClip(s.n + TzShift)
      [] OTHER -> NaN

\* s + "Z"
AppendZ(s) ==
    IF s.k = "needsZ" THEN Str("isoZ", s.n) ELSE Str("garbage", 0)

\* new Date(v).getTime() for any value v (a boolean or null converts to a
\* number of milliseconds, below the model's resolution; an object or an
\* array converts to text that is no date).
DateTime(v) ==
    CASE v.t = "num" -> IF v.k = "fin" THEN TimeClip(v.n) ELSE NaN
      [] v.t = "str" -> DateParse(v)
      [] v.t \in {"bool", "null"} -> Fin(0)
      [] OTHER -> NaN

\* Date.prototype.toISOString of a valid time value: the canonical UTC text.
ToISOString(tv) == Str("canon", tv.n)

\* Number(v), a UV value in multiples of 1/UVUnit.
ToNumber(v) ==
    CASE v.t = "num" -> IF v.k = "fin" THEN Fin(v.n) ELSE Infinite
      [] v.t = "str" ->
            (CASE v.k = "numeric" -> Fin(v.n)
               [] v.k = "empty" -> Fin(0)
               [] OTHER -> NaN)
      [] v.t = "bool" -> Fin(v.n * UVUnit)
      [] v.t \in {"null", "arr"} -> Fin(0)
      [] OTHER -> NaN

IsNaN(x) == x.k = "nan"

\* --------------------------------------------------------- normalizePoint
\* x > y for a number value x of the JSON and a finite y.
NumGT(x, y) == x.k = "inf" \/ x.n > y

\* The outcome of a call: a point, null, or an exception thrown.
NoSun == [has |-> FALSE, azimuth |-> NaN, altitude |-> NaN]
ReturnNull == [r |-> "null", uv |-> NaN, uv_time |-> Null, sun |-> NoSun]
Throws == [r |-> "throw", uv |-> NaN, uv_time |-> Null, sun |-> NoSun]
Point(uv, ts, sun) == [r |-> "point", uv |-> uv, uv_time |-> ts, sun |-> sun]

\* p.uv_time ?? p.time ?? p.timestamp ?? p.time_utc ?? null
TimestampField(p) ==
    Coalesce(p.uv_time, Coalesce(p.time, Coalesce(p.timestamp,
        Coalesce(p.time_utc, Null))))

\* new Date(ms).toISOString(): a RangeError when the Date is invalid.
IsoOfMillis(tv) ==
    IF IsNaN(tv) THEN [st |-> "throw", ts |-> Null]
    ELSE [st |-> "ok", ts |-> ToISOString(tv)]

\* ResolveNumber with the millisecond bucket starting at 1e12 itself.
ResolveNumber_MillisFrom1e12(ts) ==
    IF ts.t # "num" THEN [st |-> "ok", ts |-> ts]
    ELSE IF NumGT(ts, E12 - 1) THEN IsoOfMillis(DateTime(ts))
    ELSE IF NumGT(ts, E9) THEN IsoOfMillis(TimeClip(ts.n * 1000))
    ELSE [st |-> "ok", ts |-> Null]

\* The numeric branch (if typeof ts === "number").
ResolveNumber(ts) ==
    IF ts.t # "num" THEN [st |-> "ok", ts |-> ts]
    ELSE IF NumGT(ts, E12) THEN IsoOfMillis(DateTime(ts))
    ELSE IF NumGT(ts, E9) THEN IsoOfMillis(TimeClip(ts.n * 1000))
    ELSE [st |-> "ok", ts |-> Null]

\* The string branch (if typeof ts === "string").
ResolveString(ts) ==
    IF ts.t # "str" THEN [st |-> "ok", ts |-> ts]
    ELSE LET parsed == DateParse(ts)
             retry == DateParse(AppendZ(ts))
         IN IF ~IsNaN(parsed) THEN [st |-> "ok", ts |-> ToISOString(parsed)]
            ELSE IF ~IsNaN(retry) THEN [st |-> "ok", ts |-> ToISOString(retry)]
            ELSE [st |-> "null", ts |-> Null]

\* UvField going on to the next member when one is not a number.
UvField_FallThrough(p) ==
    LET usable(v) == v.t \notin {"undef", "null"} /\ ~IsNaN(ToNumber(v))
    IN IF usable(p.uv) THEN p.uv
       ELSE IF usable(p.value) THEN p.value
       ELSE IF usable(p.UV) THEN p.UV
       ELSE Coalesce(p.uv, Coalesce(p.value, Coalesce(p.UV, Null)))

\* p.uv ?? p.value ?? p.UV ?? null
UvField(p) == Coalesce(p.uv, Coalesce(p.value, Coalesce(p.UV, Null)))

\* SunPosition kept as soon as the azimuth is a number.
SunPosition_AzimuthOnly(p) ==
    LET raw == Coalesce(p.sun_position, p.sunPosition)
        az == ToNumber(Coalesce(raw.azimuth, Coalesce(raw.az, raw.a)))
        alt == ToNumber(Coalesce(raw.altitude, Coalesce(raw.alt, raw.h)))
    IN IF raw.t = "obj" /\ ~IsNaN(az)
       THEN [has |-> TRUE, azimuth |-> az, altitude |-> alt]
       ELSE NoSun

\* The optional sun position: kept when both numbers are not NaN.
SunPosition(p) ==
    LET raw == Coalesce(p.sun_position, p.sunPosition)
        az == ToNumber(Coalesce(raw.azimuth, Coalesce(raw.az, raw.a)))
        alt == ToNumber(Coalesce(raw.altitude, Coalesce(raw.alt, raw.h)))
    IN IF raw.t = "obj" /\ ~IsNaN(az) /\ ~IsNaN(alt)
       THEN [has |-> TRUE, azimuth |-> az, altitude |-> alt]
       ELSE NoSun

\* The last guard of normalizePoint: if (!ts) return null.
MissingTimestamp(ts) == Falsy(ts)

normalizePoint(p) ==
    IF p.kind = "null" THEN ReturnNull
    ELSE LET n == ResolveNumber(TimestampField(p))
             s == ResolveString(n.ts)
             uvVal == UvField(p)
             uvNum == ToNumber(uvVal)
         IN IF n.st = "throw" THEN Throws
            ELSE IF s.st = "null" THEN ReturnNull
            ELSE IF uvVal.t \in {"undef", "null"} THEN ReturnNull
            ELSE IF IsNaN(uvNum) THEN ReturnNull
            ELSE IF MissingTimestamp(s.ts) THEN ReturnNull
            ELSE Point(uvNum, s.ts, SunPosition(p))

\* ------------------------------------------------------------ raw records
\* The sun-position member of a raw record: absent, null, text or an object
\* with any of the accepted member names.
SunRaw(t, azimuth, az, altitude, alt) ==
    [t |-> t, azimuth |-> azimuth, az |-> az, a |-> Undef,
     altitude |-> altitude, alt |-> alt, h |-> Undef]
SunAbsent == SunRaw("undef", Undef, Undef, Undef, Undef)

\* An element of the raw forecast array: an object, null, or a primitive
\* (every member read of a primitive is undefined).
EmptyRecord ==
    [kind |-> "object", uv_time |-> Undef, time |-> Undef, timestamp |-> Undef,
     time_utc |-> Undef, uv |-> Undef, value |-> Undef, UV |-> Undef,
     sun_position |-> SunAbsent, sunPosition |-> SunAbsent]
NullElement == [EmptyRecord EXCEPT !.kind = "null"]
PrimElement == [EmptyRecord EXCEPT !.kind = "prim"]
Record(ts, uv) == [EmptyRecord EXCEPT !.uv_time = ts, !.uv = uv]

\* Timestamp values given to normalizePoint.
TsSamples ==
    {Undef, Null, Num(0 - 5), Num(0), Num(E9), Num(E9 + 1), Num(E12),
     Num(E12 + 1), Num(1700), Num(MaxDate), Num(MaxDate + 1), Inf,
     Str("isoZ", 1700), Str("isoZ", E12 + 1), Str("isoLocal", 1700),
     Str("canon", 1700),
     Str("needsZ", 1700), Str("isoZ", MaxDate + 1), Str("garbage", 0),
     Str("empty", 0), Bool(TRUE), Bool(FALSE), Obj, Arr}

\* UV values given to normalizePoint.
UvSamples ==
    {Undef, Null, Num(0), Num(1 * UVUnit), Num(7 * UVUnit), Num(0 - UVUnit),
     Inf, Str("numeric", 7 * UVUnit), Str("numeric", 0 - 3 * UVUnit),
     Str("garbage", 0), Str("empty", 0), Bool(TRUE), Obj, Arr}

SunSamples ==
    {SunAbsent,
     SunRaw("obj", Num(180), Undef, Num(45), Undef),
     SunRaw("obj", Undef, Str("numeric", 180), Undef, Num(45)),
     SunRaw("obj", Num(180), Undef, Undef, Undef),
     SunRaw("obj", Null, Null, Null, Null),
     [SunRaw("obj", Null, Null, Null, Null) EXCEPT !.a = Null, !.h = Null],
     SunRaw("obj", Str("garbage", 0), Num(180), Num(45), Undef),
     SunRaw("str", Undef, Undef, Undef, Undef),
     SunRaw("null", Undef, Undef, Undef, Undef)}

\* The records normalizePoint is examined on: every timestamp with every UV
\* value, the alternative member names, and the sun positions.
RawSamples ==
    {Record(ts, uv) : ts \in TsSamples, uv \in UvSamples}
    \cup {[EmptyRecord EXCEPT !.time = ts, !.value = uv] :
            ts \in {Num(1700), Str("garbage", 0)},
            uv \in {Num(7 * UVUnit), Str("garbage", 0)}}
    \cup {[EmptyRecord EXCEPT !.uv_time = a, !.timestamp = Num(1700),
                              !.time_utc = Str("isoZ", 1800),
                              !.uv = b, !.value = c, !.UV = Num(UVUnit)] :
            a \in {Undef, Null, Str("garbage", 0)},
            b \in {Undef, Null, Str("garbage", 0)},
            c \in {Undef, Null, Str("garbage", 0), Num(7 * UVUnit)}}
    \cup {[Record(Num(1700), Num(UVUnit)) EXCEPT !.sun_position = sp] :
            sp \in SunSamples}
    \cup {[Record(Num(1700), Num(UVUnit)) EXCEPT !.sunPosition = sp] :
            sp \in SunSamples}
    \cup {NullElement, PrimElement}

\* ------------------------------------------------------------ getCategory
\* UvLT with <= in the place of <.
UvLT_OrEqual(uv, c) ==
    \/ uv.k = "fin" /\ uv.n <= c * UVUnit
    \/ uv.k = "inf" /\ uv.n < 0

\* uv < c for a UV value uv and a threshold c of the code (NaN compares false).
UvLT(uv, c) ==
    \/ uv.k = "fin" /\ uv.n < c * UVUnit
    \/ uv.k = "inf" /\ uv.n < 0

getCategory(uv) ==
    IF UvLT(uv, 3) THEN "low"
    ELSE IF UvLT(uv, 6) THEN "moderate"
    ELSE IF UvLT(uv, 8) THEN "high"
    ELSE IF UvLT(uv, 11) THEN "veryHigh"
    ELSE "extreme"

\* ---------------------------------------------------- the series builder
\* rawForecast.map(normalizePoint): the outcome of every element.
MapNormalize(raw) == [k \in 1..Len(raw) |-> normalizePoint(raw[k])]

\* One call of the map threw: the exception leaves the map.
MapThrows(raw) == \E k \in 1..Len(raw) : normalizePoint(raw[k]).r = "throw"

\* .filter(x => x !== null)
FilterNonNull(outs) == SelectSeq(outs, LAMBDA o : o.r # "null")

\* new Date(a.uv_time).getTime()
PointTime(pt) == DateTime(pt.uv_time)

\* The comparator of the sort; Array.prototype.sort reads a NaN result as 0.
CompareTime(a, b) ==
    IF IsNaN(PointTime(a)) \/ IsNaN(PointTime(b)) THEN 0
    ELSE PointTime(a).n - PointTime(b).n

\* The comparator is consistent on s (ECMAScript, Array.prototype.sort):
\* equality and order under it are transitive.
ConsistentComparator(s) ==
    \A a, b, c \in 1..Len(s) :
        /\ (CompareTime(s[a], s[b]) = 0 /\ CompareTime(s[b], s[c]) = 0)
                => CompareTime(s[a], s[c]) = 0
        /\ (CompareTime(s[a], s[b]) < 0 /\ CompareTime(s[b], s[c]) < 0)
                => CompareTime(s[a], s[c]) < 0

\* x put behind the elements of sorted that do not compare greater.
InsertByTime(sorted, x) ==
    LET pos == Cardinality({j \in 1..Len(sorted) :
                                CompareTime(sorted[j], x) <= 0})
    IN SubSeq(sorted, 1, pos) \o <<x>> \o SubSeq(sorted, pos + 1, Len(sorted))

\* The stable ascending sort.
RECURSIVE StableSort(_)
StableSort(s) ==
    IF Len(s) <= 1 THEN s
    ELSE InsertByTime(StableSort(SubSeq(s, 1, Len(s) - 1)), s[Len(s)])

\* normalized.sort(comparator): the stable sort when the comparator is
\* consistent; otherwise the order is implementation-defined and any
\* arrangement of the elements may result.
SortOutcomes(s) ==
    IF ConsistentComparator(s) THEN {StableSort(s)}
    ELSE {[k \in 1..Len(s) |-> s[pi[k]]] : pi \in Permutations(1..Len(s))}

\* Lines 203-211: the possible results of building the series of raw:
\* thrown out of by an exception, or a series to store.
BuildOutcomes(raw) ==
    IF MapThrows(raw) THEN {[st |-> "throw", series |-> <<>>]}
    ELSE {[st |-> "ok", series |-> sorted] :
            sorted \in SortOutcomes(FilterNonNull(MapNormalize(raw)))}

\* -------------------------------------------------------------- responses
SeqsUpTo(S, n) == UNION {[1..m -> S] : m \in 0..n}

\* A member that may hold an array: data.forecast, data.result.forecast.
NotArray == [isArray |-> FALSE, items |-> <<>>]
ArrayOf(items) == [isArray |-> TRUE, items |-> items]

\* data.result.safe_exposure_time: absent, or st1..st6.
NoSafe == [present |-> FALSE, st |-> [k \in 1..6 |-> Undef]]
SafeOf(v) == [present |-> TRUE, st |-> [k \in 1..6 |-> v]]

\* data.result.  sun is "times" when sun_info.sun_times is present.
NoResult ==
    [present |-> FALSE, uv |-> Undef, uv_max |-> Undef, uv_max_time |-> Undef,
     safe |-> NoSafe, sun |-> "null", forecast |-> NotArray]
ResultOf(uv, safe, sun, inner) ==
    [present |-> TRUE, uv |-> uv, uv_max |-> uv, uv_max_time |-> Str("isoZ", 1700),
     safe |-> safe, sun |-> sun, forecast |-> inner]

\* What a call of fetchUVData receives: the body of the response (data), or
\* an exception from fetch or from response.json().
Response(success, result, top, err) ==
    [kind |-> "json", success |-> success, result |-> result,
     forecast |-> top, error |-> err]
FetchFails == [Response(FALSE, NoResult, NotArray, "") EXCEPT !.kind = "throw"]
NoResponse == [Response(FALSE, NoResult, NotArray, "") EXCEPT !.kind = "none"]

\* Raw records of the forecast arrays: three that resolve (two of them to
\* the same instant), one whose UV is not a number, one whose timestamp is
\* an object, one whose numeric timestamp is beyond the range of a Date.
BuildRecords ==
    {Record(Num(1700), Num(1 * UVUnit)),
     Record(Num(2), Num(7 * UVUnit)),
     Record(Str("isoZ", 2000), Num(4 * UVUnit)),
     Record(Str("isoZ", 1800), Str("garbage", 0)),
     Record(Obj, Num(9 * UVUnit)),
     Record(Num(MaxDate + 1), Num(1 * UVUnit))}

\* Responses of a successful call that carry one forecast array at the top
\* level.
ArrayResponses ==
    {Response(TRUE, ResultOf(Num(7 * UVUnit), SafeOf(Num(30)), "times", NotArray),
              ArrayOf(raw), "") : raw \in SeqsUpTo(BuildRecords, MaxLen)}

\* The responses of the dashboard at large: every shape of the envelope,
\* with short arrays.
DashArrays ==
    {NotArray, ArrayOf(<<>>),
     ArrayOf(<<Record(Num(2), Num(7 * UVUnit)),
               Record(Num(1700), Num(1 * UVUnit))>>),
     ArrayOf(<<Record(Num(MaxDate + 1), Num(1 * UVUnit))>>)}
DashResults ==
    {ResultOf(Num(7 * UVUnit), SafeOf(Num(30)), "times", inner) :
        inner \in {NotArray, ArrayOf(<<Record(Str("isoZ", 2000), Num(4 * UVUnit))>>)}}
    \cup {ResultOf(Str("garbage", 0), NoSafe, "null", NotArray),
          ResultOf(Num(0), SafeOf(Num(0)), "times", NotArray)}
DashResponses ==
    {Response(TRUE, r, top, "") : r \in DashResults, top \in DashArrays}
    \cup {Response(FALSE, NoResult, top, err) :
            top \in {NotArray, ArrayOf(<<Record(Num(1700), Num(1 * UVUnit))>>)},
            err \in {"", "upstream"}}
    \cup {Response(FALSE,
                   ResultOf(Num(7 * UVUnit), SafeOf(Num(30)), "times",
                            ArrayOf(<<Record(Str("isoZ", 2000), Num(4 * UVUnit))>>)),
                   NotArray, "")}
    \cup {FetchFails}

\* The skin types chosen in the selector.
SkinTypeChoices == {3, 6}

\* ---------------------------------------------------------------- state
VARIABLES
    nIn,        \* the record normalizePoint is called on
    nOut,       \* its outcome
    nPc,        \* "call" before the call, "done" after it
    nPrev,      \* when nIn is a returned point given to normalizePoint again:
                \* that point and the timestamp it was made from
    winIn,      \* getForecast24h: the forecast the render read
    forecast24h, \* the window it returned
    winPc,      \* "idle" before the first render, "done" after a render
    shown,      \* what that render read (uvIndex, skinType, times) and what
                \* it computed from it for the timer, the gauge and the
                \* protection card
    data,       \* splitIntoSegments: its argument, the chart series
    segments,   \* the segments pushed so far; a segment holds the (0-based)
                \* indices of the elements of data it refers to
    start,      \* index where the current run starts
    i,          \* the loop index
    currentCat, \* the tracked category
    segPc,      \* "begin", "loop", "tail", "done"
    \* the state of the Dashboard component (lines 88-111)
    selectedSkinType, uvIndex, uvMax, uvMaxTime, safeExposureTimes, sunInfo,
    forecast, locationData, isLoading, error, lastUpdated,
    inflight,     \* the calls of fetchUVData awaiting their response, each
                  \* with the location it asked for
    effectDue,    \* the effects of lines 346-362 are due to run
    intervalLoc,  \* the location the running interval was created with
    now,          \* the clock: it advances with every call of fetchUVData
    lastResponse, \* what the call that settled last received
    lastLoc,      \* the location that call had asked for
    \* the state of a TimeToBurnTimer component
    tMinutes,         \* its minutes prop
    secondsRemaining, isActive,
    tInterval,        \* the interval of lines 26-34 is set
    tResetDue,        \* the effect of lines 17-20 is due (minutes changed)
    tSyncDue,         \* the effect of lines 22-40 is due (its deps changed)
    tChanges,         \* how often the minutes prop has changed
    \* one request to the /api/uv GET handler
    apiReq,           \* the search parameters of the request
    apiPrimary,       \* what the call to the UV endpoint gave
    apiForecast,      \* what the call to the forecast endpoint gave
    apiResponse,      \* the response returned
    apiCalls,         \* the URLs fetched for the request, in order
    apiPc             \* "idle", "primary", "forecast", "done"

normVars == <<nIn, nOut, nPc, nPrev>>
winVars == <<winIn, forecast24h, winPc, shown>>
segVars == <<data, segments, start, i, currentCat, segPc>>
shownVars == <<uvIndex, uvMax, uvMaxTime, safeExposureTimes, sunInfo,
               forecast, lastUpdated>>
dashVars == <<selectedSkinType, shownVars, locationData, isLoading, error,
              inflight, effectDue, intervalLoc, now, lastResponse, lastLoc>>

timerVars == <<tMinutes, secondsRemaining, isActive, tInterval, tResetDue,
               tSyncDue, tChanges>>
apiVars == <<apiReq, apiPrimary, apiForecast, apiResponse, apiCalls, apiPc>>

vars == <<normVars, segVars, winVars, dashVars, timerVars, apiVars>>

\* No point has been fed back.
NoPrev == [out |-> ReturnNull, ts |-> Undef]

NormIdle ==
    /\ nIn = NullElement
    /\ nOut = ReturnNull
    /\ nPc = "idle"
    /\ nPrev = NoPrev
\* Nothing has been rendered.
NoShown ==
    [uvIndex |-> Fin(0), skinType |-> 0, times |-> [k \in 1..6 |-> Undef],
     timeToBurn |-> 0, apiSafeExposureTime |-> Null, minutes |-> Null,
     isApiData |-> FALSE, gaugeLevel |-> "", protectionLevel |-> ""]
WinIdle ==
    /\ winIn = <<>>
    /\ forecast24h = <<>>
    /\ winPc = "idle"
    /\ shown = NoShown

\* No timer is mounted.
TimerIdle ==
    /\ tMinutes = 0
    /\ secondsRemaining = 0
    /\ isActive = FALSE
    /\ tInterval = FALSE
    /\ tResetDue = FALSE
    /\ tSyncDue = FALSE
    /\ tChanges = 0

\* No request has reached the handler.
\* searchParams.get gives null for a parameter the URL does not have, and
\* its string (which may be empty) otherwise.
Absent == [has |-> FALSE, v |-> ""]
Given(s) == [has |-> TRUE, v |-> s]
NoParams == [lat |-> Absent, lng |-> Absent, alt |-> Absent, dt |-> Absent]
NoOutcome == [kind |-> "none", status |-> 0, body |-> ""]
NoReply == [status |-> 0, success |-> FALSE, error |-> "", result |-> "absent",
            forecast |-> "absent"]
ApiIdle ==
    /\ apiReq = NoParams
    /\ apiPrimary = NoOutcome
    /\ apiForecast = NoOutcome
    /\ apiResponse = NoReply
    /\ apiCalls = <<>>
    /\ apiPc = "idle"
SegIdle ==
    /\ data = <<>>
    /\ segments = <<>>
    /\ start = 0
    /\ i = 0
    /\ currentCat = "none"
    /\ segPc = "idle"

\* The error messages; "" is null.
NoError == ""
ConnectError == "Failed to connect to UV service"
FetchError == "Failed to fetch UV data"

Locations == {"Sydney", "Melbourne"}

\* The component as constructed (lines 88-111), its effects not yet run.
DashInit ==
    /\ selectedSkinType = 3
    /\ uvIndex = Fin(0)
    /\ uvMax = Fin(0)
    /\ uvMaxTime = Str("empty", 0)
    /\ safeExposureTimes = [k \in 1..6 |-> Undef]
    /\ sunInfo = "null"
    /\ forecast = <<>>
    /\ locationData = "Sydney"
    /\ isLoading = TRUE
    /\ error = NoError
    /\ lastUpdated = 0
    /\ inflight = <<>>
    /\ effectDue = TRUE
    /\ intervalLoc = "none"
    /\ now = 0
    /\ lastResponse = NoResponse
    /\ lastLoc = "none"

\* ------------------------------------------- normalizePoint, record by record
NormInit ==
    /\ nIn \in RawSamples
    /\ nOut = ReturnNull
    /\ nPc = "call"
    /\ nPrev = NoPrev
    /\ SegIdle
    /\ WinIdle
    /\ TimerIdle
    /\ ApiIdle
    /\ DashInit

\* One call of normalizePoint.
NormCall ==
    /\ nPc = "call"
    /\ nOut' = normalizePoint(nIn)
    /\ nPc' = "done"
    /\ UNCHANGED <<nIn, nPrev>>
    /\ UNCHANGED <<segVars, winVars, dashVars, timerVars, apiVars>>

\* The next element of the array is taken up.
NormNextRecord ==
    /\ nPc = "done"
    /\ nIn' \in RawSamples
    /\ nOut' = ReturnNull
    /\ nPc' = "call"
    /\ nPrev' = NoPrev
    /\ UNCHANGED <<segVars, winVars, dashVars, timerVars, apiVars>>

\* A number as a value of a record.
AsValue(x) == IF x.k = "inf" THEN Inf ELSE Num(x.n)

\* The point of lines 160-164 as a record: { uv, uv_time, sun_position? }.
PointAsRecord(pt) ==
    [Record(pt.uv_time, AsValue(pt.uv)) EXCEPT
        !.sun_position =
            IF pt.sun.has
            THEN SunRaw("obj", AsValue(pt.sun.azimuth), Undef,
                        AsValue(pt.sun.altitude), Undef)
            ELSE SunAbsent]

\* The point normalizePoint returned is given to normalizePoint again.
NormFeedBack ==
    /\ nPc = "done"
    /\ nOut.r = "point"
    /\ nPrev = NoPrev
    /\ nIn' = PointAsRecord(nOut)
    /\ nPrev' = [out |-> nOut, ts |-> TimestampField(nIn)]
    /\ nOut' = ReturnNull
    /\ nPc' = "call"
    /\ UNCHANGED <<segVars, winVars, dashVars, timerVars, apiVars>>

NormNext == NormCall \/ NormNextRecord \/ NormFeedBack

NormSpec == NormInit /\ [][NormNext]_vars

\* ------------------------------------------------------ splitIntoSegments
\* An element of chartData.
ChartPoint(label, uv) == [timeLabel |-> label, uv |-> uv]

\* One UV value of each category.
ChartUvs == {Fin(1 * UVUnit), Fin(4 * UVUnit), Fin(7 * UVUnit),
             Fin(9 * UVUnit), Fin(12 * UVUnit)}

\* The series splitIntoSegments is examined on.  All points carry the same
\* label, so that two elements of a series can be equal as values and are
\* told apart only as elements (by index).
\* The one-point series also take every UV value around the thresholds of
\* getCategory, below zero and Infinity.
CategoryUvs == {Fin(n) : n \in (0 - UVUnit)..(12 * UVUnit)} \cup {Infinite}
ChartSeries ==
    SeqsUpTo({ChartPoint("10:00", u) : u \in ChartUvs}, MaxData)
    \cup {<<ChartPoint("10:00", u)>> : u \in CategoryUvs}

\* data.slice(from, to), as the indices from..to-1.
SliceIdx(from, to) == [k \in 1..(to - from) |-> from + k - 1]

\* segments[segments.length - 1].push(x)
PushOntoLast(segs, x) ==
    [segs EXCEPT ![Len(segs)] = Append(segs[Len(segs)], x)]

\* IsSinglePoint with the single-point test lost.
IsSinglePoint_Never(seg) == FALSE

\* IsSinglePoint taking a candidate of two points for a single point too.
IsSinglePoint_UpToTwo(seg) == Len(seg) <= 2

\* seg.length === 1 (lines 309 and 334)
IsSinglePoint(seg) == Len(seg) = 1

\* NextStart skipping the point after the boundary.
NextStart_SkipOne(ix) == ix + 2

\* start = i + 1 (line 326)
NextStart(ix) == ix + 1

SegInit ==
    /\ data \in ChartSeries
    /\ segments = <<>>
    /\ start = 0
    /\ i = 0
    /\ currentCat = "none"
    /\ segPc = "begin"
    /\ NormIdle
    /\ WinIdle
    /\ TimerIdle
    /\ ApiIdle
    /\ DashInit

\* Lines 295-299: the empty series returns [], otherwise the scan is set up.
SegBegin ==
    /\ segPc = "begin"
    /\ IF Len(data) = 0
       THEN /\ segPc' = "done"
            /\ UNCHANGED <<i, currentCat>>
       ELSE /\ segPc' = "loop"
            /\ i' = 1
            /\ currentCat' = getCategory(data[1].uv)
    /\ UNCHANGED <<data, segments, start>>
    /\ UNCHANGED <<normVars, winVars, dashVars, timerVars, apiVars>>

\* Lines 301-329: one iteration of the for loop, for the index i.
SegIterate ==
    /\ segPc = "loop"
    /\ i < Len(data)
    /\ LET cat == getCategory(data[i + 1].uv)
           seg == SliceIdx(start, i + 1)
           absorb == IsSinglePoint(seg) /\ Len(segments) = 0
                     /\ i + 1 < Len(data)
           iAfter == IF absorb THEN i + 1 ELSE i
       IN IF cat # currentCat
          THEN /\ segments' =
                    IF IsSinglePoint(seg)
                    THEN IF Len(segments) > 0
                         THEN PushOntoLast(segments, seg[1])
                         ELSE IF absorb
                              THEN Append(segments, Append(seg, i + 1))
                              ELSE Append(segments, seg)
                    ELSE Append(segments, seg)
               /\ start' = NextStart(iAfter)
               /\ currentCat' = cat
               /\ i' = iAfter + 1
          ELSE /\ i' = i + 1
               /\ UNCHANGED <<segments, start, currentCat>>
    /\ UNCHANGED <<data, segPc>>
    /\ UNCHANGED <<normVars, winVars, dashVars, timerVars, apiVars>>

\* The loop condition fails.
SegLoopExit ==
    /\ segPc = "loop"
    /\ ~(i < Len(data))
    /\ segPc' = "tail"
    /\ UNCHANGED <<data, segments, start, i, currentCat>>
    /\ UNCHANGED <<normVars, winVars, dashVars, timerVars, apiVars>>

\* Lines 331-341: the last run is pushed or merged, and segments returned.
SegFinish ==
    /\ segPc = "tail"
    /\ LET lastSeg == SliceIdx(start, Len(data))
       IN segments' =
            IF start < Len(data)
            THEN IF IsSinglePoint(lastSeg) /\ Len(segments) > 0
                 THEN PushOntoLast(segments, lastSeg[1])
                 ELSE Append(segments, lastSeg)
            ELSE segments
    /\ segPc' = "done"
    /\ UNCHANGED <<data, start, i, currentCat>>
    /\ UNCHANGED <<normVars, winVars, dashVars, timerVars, apiVars>>

SegNext == SegBegin \/ SegIterate \/ SegLoopExit \/ SegFinish

SegSpec == SegInit /\ [][SegNext]_vars

\* ------------------------------------------------------------ fetchUVData
\* Lines 168-172: the call up to its await.
fetchUVData_Start(loc) ==
    /\ Len(inflight) < MaxInflight
    /\ now < MaxFetches
    /\ isLoading' = TRUE
    /\ error' = NoError
    /\ inflight' = Append(inflight, loc)
    /\ now' = now + 1
    /\ UNCHANGED <<selectedSkinType, shownVars, locationData, lastResponse,
                   lastLoc>>

\* RawForecast preferring the array inside result.
RawForecast_InnerFirst(resp) ==
    IF resp.result.forecast.isArray THEN resp.result.forecast
    ELSE IF resp.forecast.isArray THEN resp.forecast
    ELSE NotArray

\* Lines 195-199: the top-level array, else the one inside result, else null.
RawForecast(resp) ==
    IF resp.forecast.isArray THEN resp.forecast
    ELSE IF resp.result.forecast.isArray THEN resp.result.forecast
    ELSE NotArray

\* Lines 203-211 and 220-228: the series is built and stored; an exception
\* thrown by the build is caught at line 232.
StoreSeries(raw) ==
    \E b \in BuildOutcomes(raw) :
        IF b.st = "throw"
        THEN /\ error' = ConnectError
             /\ UNCHANGED <<forecast, lastUpdated>>
        ELSE /\ forecast' = b.series
             /\ lastUpdated' = now
             /\ UNCHANGED error

\* FailureMessage setting no message.
FailureMessage_None(resp) == NoError

\* Line 230: data.error || "Failed to fetch UV data".
FailureMessage(resp) == IF resp.error # "" THEN resp.error ELSE FetchError

\* NoForecastSeries keeping the series there is.
NoForecastSeries_Keep(f) == f

\* Line 214: setForecast([]) when the response has no forecast array; f is
\* the series stored so far.
NoForecastSeries(f) == <<>>

\* Lines 173-237: the call from its await on, for the k-th call in flight
\* and what it receives.
fetchUVData_Settle(k, resp) ==
    /\ k \in 1..Len(inflight)
    /\ inflight' = [j \in 1..(Len(inflight) - 1) |->
                        IF j < k THEN inflight[j] ELSE inflight[j + 1]]
    /\ lastResponse' = resp
    /\ lastLoc' = inflight[k]
    /\ isLoading' = FALSE
    /\ IF resp.kind = "throw"
       THEN /\ error' = ConnectError
            /\ UNCHANGED shownVars
       ELSE IF resp.success /\ resp.result.present
       THEN /\ uvIndex' = IF resp.result.uv.t = "num"
                          THEN ToNumber(resp.result.uv) ELSE uvIndex
            /\ uvMax' = IF resp.result.uv_max.t = "num"
                        THEN ToNumber(resp.result.uv_max) ELSE uvMax
            /\ uvMaxTime' = IF resp.result.uv_max_time.t = "str"
                            THEN resp.result.uv_max_time ELSE uvMaxTime
            /\ safeExposureTimes' =
                    [t \in 1..6 |-> Coalesce(resp.result.safe.st[t], Null)]
            /\ sunInfo' = resp.result.sun
            /\ IF RawForecast(resp).isArray
               THEN StoreSeries(RawForecast(resp).items)
               ELSE /\ forecast' = NoForecastSeries(forecast)
                    /\ lastUpdated' = now
                    /\ UNCHANGED error
       ELSE IF resp.forecast.isArray
       THEN /\ StoreSeries(resp.forecast.items)
            /\ UNCHANGED <<uvIndex, uvMax, uvMaxTime, safeExposureTimes, sunInfo>>
       ELSE /\ error' = FailureMessage(resp)
            /\ UNCHANGED shownVars
    /\ UNCHANGED <<selectedSkinType, locationData, effectDue, intervalLoc, now>>

\* ------------------------------------------------- the Dashboard's events
\* Lines 346-362: the effects run after mount and after a change of the
\* location: the data is fetched and the interval (re)created.
FetchEffect ==
    /\ effectDue
    /\ fetchUVData_Start(locationData)
    /\ effectDue' = FALSE
    /\ intervalLoc' = locationData
    /\ UNCHANGED <<normVars, segVars, winVars, timerVars, apiVars>>

\* Lines 353-358: the interval fires, five minutes after the last time.
IntervalTick ==
    /\ intervalLoc # "none"
    /\ fetchUVData_Start(intervalLoc)
    /\ UNCHANGED <<effectDue, intervalLoc>>
    /\ UNCHANGED <<normVars, segVars, winVars, timerVars, apiVars>>

\* Line 553: the Retry button of the error banner.
RetryClick ==
    /\ error # NoError
    /\ fetchUVData_Start(locationData)
    /\ UNCHANGED <<effectDue, intervalLoc>>
    /\ UNCHANGED <<normVars, segVars, winVars, timerVars, apiVars>>

\* Lines 586-589: the refresh button, disabled while loading.
RefreshClick ==
    /\ ~isLoading
    /\ fetchUVData_Start(locationData)
    /\ UNCHANGED <<effectDue, intervalLoc>>
    /\ UNCHANGED <<normVars, segVars, winVars, timerVars, apiVars>>

\* Lines 364-376.
handleLocationChange ==
    \E loc \in Locations :
        /\ locationData' = loc
        /\ effectDue' = (effectDue \/ loc # locationData)
        /\ UNCHANGED <<selectedSkinType, shownVars, isLoading, error, inflight,
                       intervalLoc, now, lastResponse, lastLoc>>
        /\ UNCHANGED <<normVars, segVars, winVars, timerVars, apiVars>>

\* Line 716: the skin type selector.
setSelectedSkinType ==
    \E type \in SkinTypeChoices :
        /\ selectedSkinType' = type
        /\ UNCHANGED <<shownVars, locationData, isLoading, error, inflight,
                       effectDue, intervalLoc, now, lastResponse, lastLoc>>
        /\ UNCHANGED <<normVars, segVars, winVars, timerVars, apiVars>>

\* --------------------------------------------------------- getForecast24h
\* SliceFront keeping one element more.
SliceFront_OneMore(s, n) == SubSeq(s, 1, IF Len(s) < n + 1 THEN Len(s) ELSE n + 1)

\* s.slice(0, n)
SliceFront(s, n) == SubSeq(s, 1, IF Len(s) < n THEN Len(s) ELSE n)

\* Lines 242-249: the windows getForecast24h may return for the forecast f
\* (one, unless the comparator of its sort is inconsistent on f).
getForecast24h(f) ==
    IF Len(f) = 0 THEN {<<>>}
    ELSE {SliceFront(sorted, WindowSize) : sorted \in SortOutcomes(f)}

\* skinTypes (skin-type-selector.tsx, lines 10-59): type and constant.
skinTypes ==
    <<[type |-> 1, constant |-> 200], [type |-> 2, constant |-> 250],
      [type |-> 3, constant |-> 350], [type |-> 4, constant |-> 450],
      [type |-> 5, constant |-> 600], [type |-> 6, constant |-> 1000]>>

\* Math.floor(c / uv) for a constant c > 0 and a UV value uv # 0 (in
\* multiples of 1/UVUnit, or Infinity).
FloorQuotient(c, uv) ==
    IF uv.k = "inf" THEN 0
    ELSE IF uv.n > 0 THEN (c * UVUnit) \div uv.n
    ELSE 0 - (((c * UVUnit) + (0 - uv.n) - 1) \div (0 - uv.n))

\* AtLeastFive without the minimum.
AtLeastFive_NoMinimum(m) == m

\* Math.max(5, minutes)
AtLeastFive(m) == IF m < 5 THEN 5 ELSE m

\* Lines 379-386.
calculateTimeToBurn(skinType, uv) ==
    LET found == {k \in 1..Len(skinTypes) : skinTypes[k].type = skinType}
    IN IF found = {} \/ uv = Fin(0) THEN 60
       ELSE LET skinTypeData == skinTypes[CHOOSE k \in found : TRUE]
            IN AtLeastFive(FloorQuotient(skinTypeData.constant, uv))

\* Lines 391-394: safeExposureTimes[`st${selectedSkinType}`] ?? null
getApiSafeExposureTime(times, skinType) == Coalesce(times[skinType], Null)

\* Line 705: minutes={apiSafeExposureTime || timeToBurn}
MinutesProp(api, timeToBurn) == IF Falsy(api) THEN Num(timeToBurn) ELSE api

\* Line 707: isApiData={apiSafeExposureTime !== null}
IsApiDataProp(api) == api # Null

\* uv <= c (uv-gauge.tsx)
UvLE(uv, c) ==
    \/ uv.k = "fin" /\ uv.n <= c * UVUnit
    \/ uv.k = "inf" /\ uv.n < 0

\* getUVLevel (uv-gauge.tsx, lines 26-32): the level of the gauge.
getUVLevel(uv) ==
    IF UvLE(uv, 2) THEN "Low"
    ELSE IF UvLE(uv, 5) THEN "Moderate"
    ELSE IF UvLE(uv, 7) THEN "High"
    ELSE IF UvLE(uv, 10) THEN "Very High"
    ELSE "Extreme"

\* getProtectionRecommendations (lines 412-507): its level.
getProtectionRecommendations(uv) ==
    IF UvLT(uv, 3) THEN "Low"
    ELSE IF UvLT(uv, 6) THEN "Moderate"
    ELSE IF UvLT(uv, 8) THEN "High"
    ELSE IF UvLT(uv, 11) THEN "Very High"
    ELSE "Extreme"

\* A render of the component: the window is computed from the forecast of
\* that render (line 250), the props of the timer (lines 704-708), the
\* level of the gauge (line 623) and of the protection card (line 509) from
\* its uvIndex, skin type and safe exposure times.
Render ==
    /\ winIn' = forecast
    /\ forecast24h' \in getForecast24h(forecast)
    /\ winPc' = "done"
    /\ LET timeToBurn == calculateTimeToBurn(selectedSkinType, uvIndex)
           api == getApiSafeExposureTime(safeExposureTimes, selectedSkinType)
       IN shown' = [uvIndex |-> uvIndex,
                    skinType |-> selectedSkinType,
                    times |-> safeExposureTimes,
                    timeToBurn |-> timeToBurn,
                    apiSafeExposureTime |-> api,
                    minutes |-> MinutesProp(api, timeToBurn),
                    isApiData |-> IsApiDataProp(api),
                    gaugeLevel |-> getUVLevel(uvIndex),
                    protectionLevel |-> getProtectionRecommendations(uvIndex)]
    /\ UNCHANGED <<normVars, segVars, dashVars, timerVars, apiVars>>

\* A call in flight receives its response.
FetchSettles ==
    \E k \in 1..Len(inflight), resp \in DashResponses :
        /\ fetchUVData_Settle(k, resp)
        /\ UNCHANGED <<normVars, segVars, winVars, timerVars, apiVars>>

Init == DashInit /\ NormIdle /\ SegIdle /\ WinIdle /\ TimerIdle /\ ApiIdle

Next ==
    \/ FetchEffect
    \/ IntervalTick
    \/ RetryClick
    \/ RefreshClick
    \/ handleLocationChange
    \/ setSelectedSkinType
    \/ FetchSettles

Spec == Init /\ [][Next]_vars

\* ------------------------------------- the window of a long forecast array
\* Long raw forecast arrays of n records, hourly from a first instant:
\* in ascending order, in descending order, two records to each instant, and
\* ascending with every third record carrying no number as UV.
LongRaw(n, pat) ==
    [k \in 1..n |->
        CASE pat = "asc" -> Record(Num(E12 + k), Num(k))
          [] pat = "desc" -> Record(Num(E12 + n + 1 - k), Num(k))
          [] pat = "pairs" -> Record(Num(E12 + (k \div 2)), Num(k))
          [] pat = "holes" ->
                Record(Num(E12 + k),
                       IF k % 3 = 0 THEN Str("garbage", 0) ELSE Num(k))]

\* Records of the short arrays: two that resolve and one whose timestamp is
\* an object.
WindowRecords ==
    {Record(Num(1700), Num(1 * UVUnit)),
     Record(Str("isoZ", 2000), Num(4 * UVUnit)),
     Record(Obj, Num(9 * UVUnit))}

\* The responses the window is examined on: the long arrays, and the short
\* ones.
WindowResponses ==
    {Response(TRUE, ResultOf(Num(7 * UVUnit), SafeOf(Num(30)), "times", NotArray),
              ArrayOf(raw), "") :
        raw \in {LongRaw(n, pat) : n \in 0..MaxRaw,
                                   pat \in {"asc", "desc", "pairs", "holes"}}
                \cup SeqsUpTo(WindowRecords, MaxLen)}

WindowFetchSettles ==
    \E k \in 1..Len(inflight), resp \in WindowResponses :
        /\ fetchUVData_Settle(k, resp)
        /\ UNCHANGED <<normVars, segVars, winVars, timerVars, apiVars>>

WindowInit == DashInit /\ NormIdle /\ SegIdle /\ WinIdle /\ TimerIdle /\ ApiIdle

WindowNext == FetchEffect \/ WindowFetchSettles \/ Render

WindowSpec == WindowInit /\ [][WindowNext]_vars

\* ---------------------------- the values derived from uvIndex at a render
\* Successful responses with every UV index around the thresholds, below
\* zero and Infinity, and every kind of safe exposure time.
ExposureResponses ==
    {Response(TRUE, ResultOf(uv, safe, "times", NotArray), NotArray, "") :
        uv \in {Num(n) : n \in (0 - UVUnit)..(12 * UVUnit)} \cup {Inf},
        safe \in {NoSafe, SafeOf(Null), SafeOf(Num(0)), SafeOf(Num(30))}}

ExposureFetchSettles ==
    \E k \in 1..Len(inflight), resp \in ExposureResponses :
        /\ fetchUVData_Settle(k, resp)
        /\ UNCHANGED <<normVars, segVars, winVars, timerVars, apiVars>>

\* Line 716: the skin type selector, with each of its six types.
SelectAnySkinType ==
    \E type \in 1..Len(skinTypes) :
        /\ selectedSkinType' = type
        /\ UNCHANGED <<shownVars, locationData, isLoading, error, inflight,
                       effectDue, intervalLoc, now, lastResponse, lastLoc>>
        /\ UNCHANGED <<normVars, segVars, winVars, timerVars, apiVars>>

ExposureInit == DashInit /\ NormIdle /\ SegIdle /\ WinIdle /\ TimerIdle /\ ApiIdle

ExposureNext ==
    \/ FetchEffect
    \/ ExposureFetchSettles
    \/ SelectAnySkinType
    \/ Render

ExposureSpec == ExposureInit /\ [][ExposureNext]_vars

\* ------------------------------------- one fetch of a forecast array
\* The first call of fetchUVData receives a successful response with a
\* forecast array at its top level.
ArrayFetchSettles ==
    \E k \in 1..Len(inflight), resp \in ArrayResponses :
        /\ fetchUVData_Settle(k, resp)
        /\ UNCHANGED <<normVars, segVars, winVars, timerVars, apiVars>>

FetchInit == DashInit /\ NormIdle /\ SegIdle /\ WinIdle /\ TimerIdle /\ ApiIdle

FetchNext == FetchEffect \/ ArrayFetchSettles

FetchSpec == FetchInit /\ [][FetchNext]_vars

\* -------------------------------------------------------- TimeToBurnTimer
\* Countdown taking two seconds off at a tick.
Countdown_ByTwo(seconds) == IF seconds <= 1 THEN 0 ELSE seconds - 2

\* Lines 27-33: the updater of a tick.
Countdown(seconds) == IF seconds <= 1 THEN 0 ELSE seconds - 1

\* ShouldRun never setting the interval.
ShouldRun_Never(active, seconds) == FALSE

\* Line 25: the interval is set when isActive && secondsRemaining > 0.
ShouldRun(active, seconds) == active /\ seconds > 0

\* The component as mounted with a positive minutes prop (lines 14-15), its
\* effects not yet run.
TimerInit ==
    /\ tMinutes \in 1..MaxMinutes
    /\ secondsRemaining = tMinutes * SecondsPerMinute
    /\ isActive = TRUE
    /\ tInterval = FALSE
    /\ tResetDue = TRUE
    /\ tSyncDue = TRUE
    /\ tChanges = 0
    /\ NormIdle
    /\ SegIdle
    /\ WinIdle
    /\ ApiIdle
    /\ DashInit

\* Lines 17-20: the effect on [minutes].
TimerResetEffect ==
    /\ tResetDue
    /\ secondsRemaining' = tMinutes * SecondsPerMinute
    /\ isActive' = TRUE
    /\ tResetDue' = FALSE
    /\ tSyncDue' = (tSyncDue \/ secondsRemaining' # secondsRemaining
                             \/ isActive' # isActive)
    /\ UNCHANGED <<tMinutes, tInterval, tChanges>>
    /\ UNCHANGED <<normVars, segVars, winVars, dashVars, apiVars>>

\* Lines 22-40: the effect on [isActive, secondsRemaining]: the interval of
\* the previous run is cleared and a new one set if the timer should run.
TimerSyncEffect ==
    /\ tSyncDue
    /\ tInterval' = ShouldRun(isActive, secondsRemaining)
    /\ tSyncDue' = FALSE
    /\ UNCHANGED <<tMinutes, secondsRemaining, isActive, tResetDue, tChanges>>
    /\ UNCHANGED <<normVars, segVars, winVars, dashVars, apiVars>>

\* Lines 26-34: the interval fires.
TimerTick ==
    /\ tInterval
    /\ secondsRemaining' = Countdown(secondsRemaining)
    /\ isActive' = IF secondsRemaining <= 1 THEN FALSE ELSE isActive
    /\ tSyncDue' = (tSyncDue \/ secondsRemaining' # secondsRemaining
                             \/ isActive' # isActive)
    /\ UNCHANGED <<tMinutes, tInterval, tResetDue, tChanges>>
    /\ UNCHANGED <<normVars, segVars, winVars, dashVars, apiVars>>

\* The Dashboard renders the timer with another (positive) minutes prop
\* (part_000, lines 704-708).
TimerPropsChange ==
    /\ tChanges < MaxPropChanges
    /\ \E m \in 1..MaxMinutes :
            /\ m # tMinutes
            /\ tMinutes' = m
    /\ tResetDue' = TRUE
    /\ tChanges' = tChanges + 1
    /\ UNCHANGED <<secondsRemaining, isActive, tInterval, tSyncDue>>
    /\ UNCHANGED <<normVars, segVars, winVars, dashVars, apiVars>>

TimerNext ==
    \/ TimerResetEffect
    \/ TimerSyncEffect
    \/ TimerTick
    \/ TimerPropsChange

TimerSpec == TimerInit /\ [][TimerNext]_vars

\* The interval fires every second while it is set, and React runs the
\* effects that are due.
TimerLiveSpec ==
    /\ TimerInit
    /\ [][TimerNext]_vars
    /\ WF_vars(TimerTick)
    /\ WF_vars(TimerResetEffect)
    /\ WF_vars(TimerSyncEffect)

\* ------------------------------------------------ the /api/uv GET handler
OPENUV_BASE_URL == "https://api.openuv.io/api/v1/uv"
OPENUV_FORECAST_URL == "https://api.openuv.io/api/v1/forecast"

\* !p for a search parameter: null and the empty string are falsy.
Missing(p) == ~p.has \/ p.v = ""

\* p || d
OrElse(p, d) == IF Missing(p) THEN d ELSE p.v

\* Lines 61-64: the URL of the UV call.
PrimaryUrl(lat, lng, alt, dt) ==
    OPENUV_BASE_URL \o "?lat=" \o lat \o "&lng=" \o lng \o "&alt=" \o alt
        \o (IF dt # "" THEN "&dt=" \o dt ELSE "")

\* Line 99: the URL of the forecast call.
ForecastUrl(lat, lng) == OPENUV_FORECAST_URL \o "?lat=" \o lat \o "&lng=" \o lng

\* response.ok
Ok(status) == status \in 200..299

\* A reply with an error member only.
ErrorReply(message, status) ==
    [status |-> status, success |-> FALSE, error |-> message,
     result |-> "absent", forecast |-> "absent"]

\* Lines 124-130: the reply of the outer catch.
CaughtReply == ErrorReply("Failed to fetch UV data", 500)

\* NextResponse.json inside the try: it throws for a status with which a
\* Response cannot carry a body, and the outer catch replies.
JsonOrCatch(reply) ==
    IF reply.status \in {101, 103, 204, 205, 304} THEN CaughtReply ELSE reply

\* SuccessReply refusing a forecast that is null.
SuccessReply_ForecastRequired(res, fc) ==
    IF fc = "null" THEN CaughtReply
    ELSE [status |-> 200, success |-> TRUE, error |-> "", result |-> res,
          forecast |-> fc]

\* Lines 119-123: a member that is undefined is left out of the JSON.
SuccessReply(res, fc) ==
    [status |-> 200, success |-> TRUE, error |-> "", result |-> res,
     forecast |-> fc]

\* body.result of a parsed body that is not null: "absent" is undefined.
Member(body) ==
    CASE body = "data" -> "data"
      [] body = "nullresult" -> "null"
      [] body = "noresult" -> "absent"

\* What an upstream call gives: fetch rejects, or a response with a status
\* and a body: one whose stream fails, one that is not JSON, JSON null, an
\* object without result, with result null, with a result.
Outcomes ==
    {[kind |-> "throw", status |-> 0, body |-> ""]}
        \cup {[kind |-> "response", status |-> st, body |-> b] :
                st \in {200, 304, 403, 404, 500},
                b \in {"unreadable", "invalid", "null", "noresult",
                       "nullresult", "data"}}

\* Lines 66-93: the UV call ends the request with an error.
PrimaryFails(o) ==
    \/ o.kind = "throw"
    \/ ~Ok(o.status)
    \/ o.body \in {"unreadable", "invalid"}

\* Lines 76-91 and 124-130: the reply then.
PrimaryErrorReply(o) ==
    IF o.kind = "throw" THEN CaughtReply
    ELSE IF ~Ok(o.status)
    THEN IF o.body = "unreadable" THEN CaughtReply
         ELSE IF o.status = 403
         THEN JsonOrCatch(ErrorReply("API key invalid or rate limit exceeded", 403))
         ELSE JsonOrCatch(ErrorReply("OpenUV API error: " \o ToString(o.status),
                                     o.status))
    ELSE CaughtReply

\* Lines 96-117: the value of forecast after the inner try.
ForecastOf(o) ==
    IF o.kind = "throw" THEN "null"
    ELSE IF ~Ok(o.status) THEN "null"
    ELSE IF o.body \in {"unreadable", "invalid", "null"} THEN "null"
    ELSE Member(o.body)

\* Lines 46-74: a request arrives; the handler runs to its first await.
GET ==
    /\ apiPc \in {"idle", "done"}
    /\ \E lat \in {Absent, Given(""), Given("-33.87")},
          lng \in {Absent, Given(""), Given("151.21")},
          alt \in {Absent, Given(""), Given("58")},
          dt \in {Absent, Given(""), Given("2026-01-01T02:00:00Z")} :
            /\ apiReq' = [lat |-> lat, lng |-> lng, alt |-> alt, dt |-> dt]
            /\ IF Missing(lat) \/ Missing(lng)
               THEN /\ apiResponse' =
                        ErrorReply("Missing required parameters: lat and lng", 400)
                    /\ apiCalls' = <<>>
                    /\ apiPc' = "done"
               ELSE /\ apiResponse' = NoReply
                    /\ apiCalls' = <<PrimaryUrl(lat.v, lng.v, OrElse(alt, "0"),
                                                OrElse(dt, ""))>>
                    /\ apiPc' = "primary"
    /\ apiPrimary' = NoOutcome
    /\ apiForecast' = NoOutcome
    /\ UNCHANGED <<normVars, segVars, winVars, dashVars, timerVars>>

\* Lines 66-109: the UV call settles; the handler replies with an error or
\* goes on to the forecast call.
PrimarySettles ==
    /\ apiPc = "primary"
    /\ \E o \in Outcomes :
            /\ apiPrimary' = o
            /\ IF PrimaryFails(o)
               THEN /\ apiResponse' = PrimaryErrorReply(o)
                    /\ apiCalls' = apiCalls
                    /\ apiPc' = "done"
               ELSE /\ apiResponse' = apiResponse
                    /\ apiCalls' = Append(apiCalls,
                                          ForecastUrl(apiReq.lat.v, apiReq.lng.v))
                    /\ apiPc' = "forecast"
    /\ UNCHANGED <<apiReq, apiForecast>>
    /\ UNCHANGED <<normVars, segVars, winVars, dashVars, timerVars>>

\* Lines 98-130: the forecast call settles and the handler replies; reading
\* result of a UV body that is null throws into the outer catch.
ForecastSettles ==
    /\ apiPc = "forecast"
    /\ \E o \in Outcomes :
            /\ apiForecast' = o
            /\ apiResponse' =
                IF apiPrimary.body = "null" THEN CaughtReply
                ELSE SuccessReply(Member(apiPrimary.body), ForecastOf(o))
    /\ apiPc' = "done"
    /\ UNCHANGED <<apiReq, apiPrimary, apiCalls>>
    /\ UNCHANGED <<normVars, segVars, winVars, dashVars, timerVars>>

ApiInit ==
    /\ ApiIdle
    /\ NormIdle
    /\ SegIdle
    /\ WinIdle
    /\ TimerIdle
    /\ DashInit

ApiNext ==
    \/ GET
    \/ PrimarySettles
    \/ ForecastSettles

ApiSpec == ApiInit /\ [][ApiNext]_vars

\* ===================================================== claims: normalizePoint
\* The UV member of p resolves: a member is present and Number() of it is
\* not NaN.
UvResolves(p) ==
    /\ UvField(p).t \notin {"undef", "null"}
    /\ ~IsNaN(ToNumber(UvField(p)))

\* C3 (as claimed): every point returned by normalizePoint carries a
\* timestamp that is a canonical ISO-8601 UTC string of a valid instant, and
\* a record whose timestamp member is neither a number nor a string (a
\* boolean, an object, an array) yields no point.
C3_TimestampResolved ==
    (nPc = "done" /\ nOut.r = "point") =>
        /\ nOut.uv_time.t = "str"
        /\ nOut.uv_time.k = "canon"
        /\ ~IsNaN(PointTime(nOut))
        /\ TimestampField(nIn).t \in {"num", "str"}

\* C4 (as claimed): every point accepted by normalizePoint has a uv that is
\* a finite number >= 0; a negative or infinite UV is not admitted.
C4_UvFiniteNonNegative ==
    (nPc = "done" /\ nOut.r = "point") =>
        (nOut.uv.k = "fin" /\ nOut.uv.n >= 0)

\* C6 (as claimed): for a numeric timestamp t (of a record whose UV
\* resolves): t > 1e12 gives the instant t ms; 1e9 <= t <= 1e12 gives the
\* instant t s; t < 1e9 gives no point.
C6_NumericBuckets ==
    (nPc = "done" /\ nIn.kind = "object" /\ TimestampField(nIn).t = "num"
        /\ UvResolves(nIn)) =>
        LET t == TimestampField(nIn)
        IN /\ NumGT(t, E12) =>
                (nOut.r = "point" /\ t.k = "fin" /\ PointTime(nOut) = Fin(t.n))
           /\ (~NumGT(t, E12) /\ t.n >= E9) =>
                (nOut.r = "point" /\ PointTime(nOut) = Fin(t.n * 1000))
           /\ (~NumGT(t, E12) /\ t.n < E9) => nOut.r = "null"

\* C7 (as claimed): a numeric timestamp of exactly 1e12 is read as
\* milliseconds.
C7_ExactlyE12IsMillis ==
    (nPc = "done" /\ nIn.kind = "object" /\ TimestampField(nIn) = Num(E12)
        /\ UvResolves(nIn)) =>
        (nOut.r = "point" /\ PointTime(nOut) = Fin(E12))

\* C7 (amended): a numeric timestamp of exactly 1e12 is read as seconds
\* (the instant 1e12 * 1000 ms); the millisecond bucket starts above 1e12.
C7_ExactlyE12IsSeconds ==
    (nPc = "done" /\ nIn.kind = "object" /\ TimestampField(nIn) = Num(E12)
        /\ UvResolves(nIn)) =>
        (nOut.r = "point" /\ PointTime(nOut) = Fin(E12 * 1000))

C7_Witness ==
    /\ nPc = "done"
    /\ TimestampField(nIn) = Num(E12)
    /\ UvResolves(nIn)
    /\ nOut.r = "point"

\* ================================================== claims: the series build
\* A call of fetchUVData has settled; the raw array it was given.
Settled == lastResponse.kind # "none"
LastRaw == RawForecast(lastResponse).items

\* The timestamp member of p resolves to an instant: a number in one of the
\* two buckets and in the range of a Date, or a string Date can parse.
TsResolves(p) ==
    LET t == TimestampField(p)
    IN \/ /\ t.t = "num"
          /\ t.k = "fin"
          /\ t.n > E9
          /\ t.n > E12 => t.n <= MaxDate
       \/ /\ t.t = "str"
          /\ ~IsNaN(DateParse(t)) \/ ~IsNaN(DateParse(AppendZ(t)))

ValidRecord(p) == p.kind = "object" /\ TsResolves(p) /\ UvResolves(p)

\* C1 (as claimed): for an array of raw records that all normalize to a
\* point, in any order, the series fetchUVData stores is sorted
\* non-decreasing by resolved timestamp.
C1_StoredSeriesSorted ==
    (Settled /\ \A k \in 1..Len(LastRaw) : normalizePoint(LastRaw[k]).r = "point")
        => \A j, k \in 1..Len(forecast) :
                (j < k /\ ~IsNaN(PointTime(forecast[j]))
                       /\ ~IsNaN(PointTime(forecast[k])))
                    => PointTime(forecast[j]).n <= PointTime(forecast[k]).n

\* C2 (as claimed): the build is total: for every array of raw records no
\* call of normalizePoint raises, the series is stored, and no error is
\* shown to the user.
C2_BuildIsTotal ==
    Settled =>
        /\ \A k \in 1..Len(LastRaw) : normalizePoint(LastRaw[k]).r # "throw"
        /\ error = NoError
        /\ lastUpdated = now

\* C5 (as claimed): the stored series holds exactly one point for each
\* record that passes timestamp and UV resolution, and no other point.
C5_ExactlyTheValidRecords ==
    Settled =>
        LET valid == {k \in 1..Len(LastRaw) : ValidRecord(LastRaw[k])}
        IN /\ Len(forecast) = Cardinality(valid)
           /\ \A k \in valid :
                \E j \in 1..Len(forecast) : forecast[j] = normalizePoint(LastRaw[k])
           /\ \A j \in 1..Len(forecast) :
                \E k \in valid : forecast[j] = normalizePoint(LastRaw[k])

\* ================================================== claims: splitIntoSegments
\* The categories of the points of a segment.
SegmentCategories(seg) ==
    {getCategory(data[seg[k] + 1].uv) : k \in 1..Len(seg)}

\* C8: splitIntoSegments returns no segment of length 1, unless it is the
\* only segment returned, which happens only for a one-point series.
C8_NoSinglePointSegment ==
    segPc = "done" =>
        \A k \in 1..Len(segments) :
            Len(segments[k]) = 1 => (Len(segments) = 1 /\ Len(data) = 1)

\* A single-point candidate arose and was merged into the segment before it:
\* the one returned segment spans three categories.
C8_Witness ==
    /\ segPc = "done"
    /\ Len(segments) = 1
    /\ Cardinality(SegmentCategories(segments[1])) >= 3

\* The segments joined in order, a point that ends one segment and begins
\* the next counted once.
RECURSIVE JoinSegments(_)
JoinSegments(segs) ==
    IF segs = <<>> THEN <<>>
    ELSE LET first == Head(segs)
             rest == JoinSegments(Tail(segs))
         IN IF first # <<>> /\ rest # <<>> /\ first[Len(first)] = rest[1]
            THEN first \o Tail(rest)
            ELSE first \o rest

\* C9: the segments returned, joined in order with shared boundary points
\* counted once, are exactly the input series: no element is lost,
\* duplicated or reordered.
C9_SegmentsReconstructSeries ==
    segPc = "done" => JoinSegments(segments) = SliceIdx(0, Len(data))

C9_Witness ==
    /\ segPc = "done"
    /\ Len(segments) >= 2
    /\ Len(data) = MaxData

\* C10 (as claimed): adjacent segments share their boundary point: the last
\* element of a segment is the first element of the next.
C10_AdjacentSegmentsShareBoundary ==
    segPc = "done" =>
        \A k \in 1..(Len(segments) - 1) :
            segments[k][Len(segments[k])] = segments[k + 1][1]

\* C11 (as claimed): every segment returned is category-homogeneous: all its
\* points have the same getCategory value.
C11_SegmentsHomogeneous ==
    segPc = "done" =>
        \A k \in 1..Len(segments) :
            Cardinality(SegmentCategories(segments[k])) <= 1

\* C21 (as claimed): during the scan the tracked category is the category of
\* the point at the start index of the current run.
C21_TrackedCategoryIsOfRunStart ==
    (segPc = "loop" /\ start < Len(data)) =>
        currentCat = getCategory(data[start + 1].uv)

\* The scan is at an index i where the category changes, and the candidate
\* data.slice(start, i + 1) is a single point.
SingleCandidate ==
    /\ segPc = "loop"
    /\ i < Len(data)
    /\ getCategory(data[i + 1].uv) # currentCat
    /\ IsSinglePoint(SliceIdx(start, i + 1))

\* C22: a single-point candidate arises only when a segment has been
\* pushed before, so the branch that extends a first candidate by the
\* following point and advances the index (lines 313-319) is never taken.
C22_SingleCandidateHasPredecessor == SingleCandidate => Len(segments) > 0

\* A single-point candidate arose, with a point following it.
C22_Witness == SingleCandidate /\ i + 1 < Len(data)

\* ===================================================== claims: getForecast24h
\* f is a time-sorted series: every point has an instant, in non-decreasing
\* order.
TimeSorted(f) ==
    /\ \A k \in 1..Len(f) : ~IsNaN(PointTime(f[k]))
    /\ \A j, k \in 1..Len(f) :
            j < k => PointTime(f[j]).n <= PointTime(f[k]).n

\* C12: the window getForecast24h returns for a time-sorted series of n
\* points is exactly its first min(24, n) points: never more than 24, and a
\* function of the series alone (not of the clock).
C12_WindowIsPrefix ==
    (winPc = "done" /\ TimeSorted(winIn)) =>
        /\ Len(forecast24h) = (IF Len(winIn) < 24 THEN Len(winIn) ELSE 24)
        /\ \A k \in 1..Len(forecast24h) : forecast24h[k] = winIn[k]

\* The window of a series of more than 24 points was computed.
C12_Witness ==
    /\ winPc = "done"
    /\ TimeSorted(winIn)
    /\ Len(winIn) > 24
    /\ Len(forecast24h) = 24

\* ================================================= claims: the fetch handler
\* The call that settled last received a response body.
GotBody == Settled /\ lastResponse.kind = "json"

\* The series the build may store for the array items.
BuiltSeries(items) == {b.series : b \in {o \in BuildOutcomes(items) : o.st = "ok"}}

\* C14 (as claimed): after a response whose forecast array is empty, or in
\* which neither forecast nor result.forecast is an array, the stored
\* forecast series is empty (and so is the segment list made from it).
C14_NoArrayStoresEmpty ==
    LET top == lastResponse.forecast
        inner == lastResponse.result.forecast
    IN (GotBody /\ \/ (top.isArray /\ top.items = <<>>)
                   \/ (~top.isArray /\ inner.isArray /\ inner.items = <<>>)
                   \/ (~top.isArray /\ ~inner.isArray))
            => forecast = <<>>

\* C14 (amended): after a response marked success with a result, whose
\* forecast array is empty or in which neither forecast nor result.forecast
\* is an array, and after any response whose top-level forecast is an empty
\* array, the stored forecast series is empty, and so is its window (of
\* which splitIntoSegments makes the empty segment list, line 295).
C14_SuccessfulNoArrayStoresEmpty ==
    LET top == lastResponse.forecast
        raw == RawForecast(lastResponse)
    IN (GotBody /\ \/ (top.isArray /\ top.items = <<>>)
                   \/ /\ lastResponse.success
                      /\ lastResponse.result.present
                      /\ ~raw.isArray \/ raw.items = <<>>)
            => (forecast = <<>> /\ getForecast24h(forecast) = {<<>>})

\* A successful response without a forecast array was processed after a
\* second call of fetchUVData had started.
C14_Witness ==
    /\ GotBody
    /\ lastResponse.success
    /\ lastResponse.result.present
    /\ ~RawForecast(lastResponse).isArray
    /\ now >= 2
    /\ forecast = <<>>

\* C15: when the response has an array at forecast, the series is built
\* from that array, whether or not result.forecast is an array too; the
\* array at result.forecast is the one built from when forecast is no array
\* (in a successful response).
C15_TopLevelPreferred ==
    LET top == lastResponse.forecast
        inner == lastResponse.result.forecast
    IN GotBody =>
        /\ (top.isArray /\ ~MapThrows(top.items))
                => forecast \in BuiltSeries(top.items)
        /\ (~top.isArray /\ inner.isArray /\ ~MapThrows(inner.items)
                /\ lastResponse.success /\ lastResponse.result.present)
                => forecast \in BuiltSeries(inner.items)

\* A response with two different arrays was processed and the two points of
\* the top-level one are stored.
C15_Witness ==
    /\ GotBody
    /\ lastResponse.forecast.isArray
    /\ lastResponse.result.forecast.isArray
    /\ Len(lastResponse.forecast.items) = 2
    /\ Len(lastResponse.result.forecast.items) = 1
    /\ Len(forecast) = 2

\* C16 (as claimed): after each response that carries a forecast array (at
\* forecast or at result.forecast) is processed, the stored series is the
\* build of that array alone, with no point of an earlier response.
C16_ReplacedWholesale ==
    LET top == lastResponse.forecast
        inner == lastResponse.result.forecast
    IN (GotBody /\ (top.isArray \/ inner.isArray)) =>
            forecast \in BuiltSeries(IF top.isArray THEN top.items
                                     ELSE inner.items)

\* C18 (as claimed): once the effects have run and every call of
\* fetchUVData has settled, the data shown (set by the successful response
\* that was processed last) is the data of the selected location.
C18_LatestLocationShown ==
    (/\ inflight = <<>>
     /\ ~effectDue
     /\ GotBody
     /\ lastResponse.success
     /\ lastResponse.result.present) => lastLoc = locationData

\* C25 (as claimed): isLoading is true in every state in which a call of
\* fetchUVData has started and not yet settled.
C25_LoadingWhileInFlight == inflight # <<>> => isLoading

\* The response resp is a failure: it is an exception of fetch or of
\* response.json(), or a body with neither success and result nor a
\* top-level forecast array.
IsFailure(resp) ==
    \/ resp.kind = "throw"
    \/ /\ resp.kind = "json"
       /\ ~(resp.success /\ resp.result.present)
       /\ ~resp.forecast.isArray

\* C29: when a call of fetchUVData settles as a failure, uvIndex, uvMax,
\* uvMaxTime, safeExposureTimes, sunInfo, forecast and lastUpdated keep
\* their values; error is set to a message and isLoading to false (and
\* nothing else of the component changes).
C29_FailureKeepsShownData ==
    [][(Len(inflight') = Len(inflight) - 1 /\ IsFailure(lastResponse')) =>
            /\ UNCHANGED shownVars
            /\ UNCHANGED <<selectedSkinType, locationData>>
            /\ error' # NoError
            /\ isLoading' = FALSE]_vars

\* A failure was processed while data of an earlier response is shown.
C29_Witness ==
    /\ Settled
    /\ IsFailure(lastResponse)
    /\ forecast # <<>>
    /\ lastUpdated > 0
    /\ error # NoError
    /\ ~isLoading

\* ======================================================== claims: getCategory
\* The five categories and the interval of UV values of each.
Categories == {"low", "moderate", "high", "veryHigh", "extreme"}
UvBelow(v, c) == v.k = "fin" /\ v.n < c * UVUnit
UvAtLeast(v, c) == v.k = "inf" \/ (v.k = "fin" /\ v.n >= c * UVUnit)
InCategory(v, c) ==
    CASE c = "low" -> UvBelow(v, 3)
      [] c = "moderate" -> UvAtLeast(v, 3) /\ UvBelow(v, 6)
      [] c = "high" -> UvAtLeast(v, 6) /\ UvBelow(v, 8)
      [] c = "veryHigh" -> UvAtLeast(v, 8) /\ UvBelow(v, 11)
      [] c = "extreme" -> UvAtLeast(v, 11)

\* C13: getCategory is a total step function: low if v < 3, moderate if
\* 3 <= v < 6, high if 6 <= v < 8, veryHigh if 8 <= v < 11, extreme if
\* v >= 11; every value falls in exactly one category, the one returned.
\* (currentCat is getCategory(data[0].uv) when the loop is entered.)
C13_CategoryStepFunction ==
    (segPc = "loop" /\ i = 1) =>
        {c \in Categories : InCategory(data[1].uv, c)} = {currentCat}

\* getCategory was applied to a value on a threshold.
C13_Witness ==
    /\ segPc = "loop"
    /\ i = 1
    /\ data[1].uv = Fin(3 * UVUnit)
    /\ currentCat = "moderate"

\* ======================================= claims: the members of a raw record
\* a ?? b ?? ... over the values of vs: the first that is neither undefined
\* nor null, else the last.
FirstNonNullish(vs) ==
    LET ks == {k \in 1..Len(vs) : vs[k].t \notin {"undef", "null"}}
    IN IF ks = {} THEN vs[Len(vs)]
       ELSE vs[CHOOSE k \in ks : \A j \in ks : k <= j]

\* C17: normalisation of timestamps is idempotent: when the timestamp of a
\* record is a string Date can read, the point normalizePoint returns, given
\* to normalizePoint again, yields a point of the same instant and the same
\* canonical uv_time.
C17_TimestampIdempotent ==
    (nPc = "done" /\ nPrev # NoPrev /\ nPrev.ts.t = "str") =>
        /\ nOut.r = "point"
        /\ nOut.uv_time = nPrev.out.uv_time
        /\ PointTime(nOut) = PointTime(nPrev.out)

\* A local date-time, whose canonical text differs from it, went through
\* normalizePoint twice.
C17_Witness ==
    /\ nPc = "done"
    /\ nPrev # NoPrev
    /\ nPrev.ts = Str("isoLocal", 1700)
    /\ nOut.r = "point"

\* C19: the UV value is the first of uv, value, UV that is present and not
\* null; only that value is coerced; the record is rejected when no member
\* is present or when that coercion is NaN, without going on to a later
\* member.
C19_FirstPresentUvMemberOnly ==
    (nPc = "done" /\ nIn.kind = "object") =>
        LET first == FirstNonNullish(<<nIn.uv, nIn.value, nIn.UV>>)
            present == first.t \notin {"undef", "null"}
        IN /\ nOut.r = "point" => (present /\ nOut.uv = ToNumber(first))
           /\ (~present \/ IsNaN(ToNumber(first))) => nOut.r # "point"

\* uv is text that is no number, UV is a number, the timestamp resolves: the
\* record is rejected.
C19_Witness ==
    /\ nPc = "done"
    /\ nIn.kind = "object"
    /\ nIn.uv = Str("garbage", 0)
    /\ nIn.UV = Num(UVUnit)
    /\ TsResolves(nIn)
    /\ nOut.r = "null"

\* The record p without its sun-position members.
WithoutSun(p) == [p EXCEPT !.sun_position = SunAbsent, !.sunPosition = SunAbsent]

\* The sun-position member of p is an object whose azimuth and altitude
\* (under any of their names) both coerce to a number.
BothCoerce(p) ==
    LET raw == FirstNonNullish(<<p.sun_position, p.sunPosition>>)
    IN /\ raw.t = "obj"
       /\ ~IsNaN(ToNumber(FirstNonNullish(<<raw.azimuth, raw.az, raw.a>>)))
       /\ ~IsNaN(ToNumber(FirstNonNullish(<<raw.altitude, raw.alt, raw.h>>)))

\* C20: the sun position never decides validity: normalizePoint returns a
\* point for a record exactly when it does for the record without its sun
\* position, and the point has a sun_position iff azimuth and altitude both
\* coerce to numbers.
C20_SunPositionIsOptional ==
    (nPc = "done" /\ nIn.kind = "object") =>
        /\ nOut.r = normalizePoint(WithoutSun(nIn)).r
        /\ nOut.r = "point" => (nOut.sun.has <=> BothCoerce(nIn))

\* A record whose sun position has an azimuth and no altitude is returned
\* as a point without sun_position.
C20_Witness ==
    /\ nPc = "done"
    /\ nOut.r = "point"
    /\ nIn.sun_position.t = "obj"
    /\ nIn.sun_position.azimuth = Num(180)
    /\ nIn.sun_position.altitude = Undef
    /\ nIn.sun_position.alt = Undef
    /\ ~nOut.sun.has

\* ======================================= claims: the values shown at a render
\* C26 (as claimed): the timer is given isApiData = true exactly when the
\* minutes it is given is the safe exposure time the API provided for the
\* selected skin type, and otherwise the minutes is the computed fallback,
\* for every stored value (absent, null, 0, positive).
C26_IsApiDataMatchesMinutes ==
    winPc = "done" =>
        /\ shown.isApiData <=> (shown.minutes = shown.times[shown.skinType])
        /\ ~shown.isApiData => shown.minutes = Num(shown.timeToBurn)

\* The level names of the categories of getCategory.
LevelOfCategory(c) ==
    CASE c = "low" -> "Low"
      [] c = "moderate" -> "Moderate"
      [] c = "high" -> "High"
      [] c = "veryHigh" -> "Very High"
      [] c = "extreme" -> "Extreme"

\* C27 (as claimed): for every UV index v >= 0 the level of the gauge
\* (getUVLevel) is the level getProtectionRecommendations and getCategory
\* choose for v.
C27_GaugeLevelAgrees ==
    (winPc = "done" /\ (shown.uvIndex.k = "inf" \/ shown.uvIndex.n >= 0)) =>
        /\ shown.gaugeLevel = shown.protectionLevel
        /\ shown.gaugeLevel = LevelOfCategory(getCategory(shown.uvIndex))

\* The constant of a skin type of the selector.
ConstantOf(skinType) ==
    skinTypes[CHOOSE k \in 1..Len(skinTypes) : skinTypes[k].type = skinType].constant

\* C28: calculateTimeToBurn gives 60 when uvIndex is 0, and otherwise
\* max(5, floor(constant / uvIndex)) with the constant of the selected skin
\* type (q = floor(c / u) iff q * u <= c < (q + 1) * u for u > 0; the
\* quotient is below 5 for a negative or infinite uvIndex); it is never
\* below 5.
C28_TimeToBurn ==
    winPc = "done" =>
        LET u == shown.uvIndex
            c == ConstantOf(shown.skinType) * UVUnit
            m == shown.timeToBurn
        IN /\ m >= 5
           /\ u = Fin(0) => m = 60
           /\ (u.k = "fin" /\ u.n > 0) =>
                \E q \in 0..c :
                    /\ q * u.n <= c
                    /\ c < (q + 1) * u.n
                    /\ m = (IF q < 5 THEN 5 ELSE q)
           /\ (u.k = "inf" \/ u.n < 0) => m = 5

\* The minimum applied: the quotient 1000 / 0.5 is kept, 200 / 12 is not.
C28_Witness ==
    /\ winPc = "done"
    /\ shown.skinType = 1
    /\ shown.uvIndex = Fin(12 * UVUnit)
    /\ shown.timeToBurn = 16

\* ==================================================== claims: TimeToBurnTimer
\* A step that is not the reset of lines 17-20.
NotReset == ~(tResetDue /\ ~tResetDue')

\* C23: with minutes > 0, secondsRemaining never goes below 0, and it is 0
\* only with the timer inactive; a step other than the reset after a change
\* of minutes never increases it: it leaves it, or (a tick of the active
\* timer) lowers it by exactly 1, to 0 when it is at most 1; at 0 no tick
\* changes it.
C23_CountdownNeverRises ==
    /\ [](secondsRemaining >= 0 /\ (secondsRemaining = 0 => ~isActive))
    /\ [][NotReset =>
            \/ secondsRemaining' = secondsRemaining
            \/ /\ isActive
               /\ secondsRemaining > 0
               /\ secondsRemaining' = (IF secondsRemaining <= 1 THEN 0
                                       ELSE secondsRemaining - 1)]_vars

\* The countdown has run from minutes * 60 down to 0.
C23_Witness ==
    /\ tMinutes > 0
    /\ secondsRemaining = 0
    /\ ~isActive
    /\ ~tInterval
    /\ ~tSyncDue

\* C24: under fair ticking the countdown, once the minutes prop (positive)
\* changes no more, reaches secondsRemaining = 0 with isActive false and
\* stays there; the reset after a change of the prop sets it to
\* minutes * 60 and active.
C24_CountdownCompletes ==
    /\ <>[](secondsRemaining = 0 /\ ~isActive)
    /\ [][~NotReset =>
            /\ secondsRemaining' = tMinutes * SecondsPerMinute
            /\ isActive']_vars

\* The countdown completed after the minutes prop had changed.
C24_Witness ==
    /\ tChanges >= 1
    /\ ~tResetDue
    /\ secondsRemaining = 0
    /\ ~isActive

\* ================================================ claims: the /api/uv handler
\* The UV call gave a parsed body whose members the handler can read.
PrimarySucceeded ==
    /\ apiPrimary.kind = "response"
    /\ Ok(apiPrimary.status)
    /\ apiPrimary.body \in {"noresult", "nullresult", "data"}

\* The forecast call threw or gave a status that is not OK.
ForecastFailed ==
    \/ apiForecast.kind = "throw"
    \/ apiForecast.kind = "response" /\ ~Ok(apiForecast.status)

\* C30: a failure of the forecast call (an exception or a status that is not
\* OK) never makes the response an error: whenever the UV call succeeded the
\* response is success: true with the result of its body, and with forecast
\* null when the forecast call failed; whenever lat or lng is missing, or the
\* UV call gave a status that is not OK or threw (fetch, the reading or the
\* parsing of the body, the reading of a body that is null), the response
\* carries an error and no success flag.
C30_ForecastFailureIsNotAnError ==
    apiPc = "done" =>
        /\ PrimarySucceeded =>
            /\ apiResponse.success
            /\ apiResponse.error = ""
            /\ apiResponse.status = 200
            /\ apiResponse.result = Member(apiPrimary.body)
            /\ ForecastFailed => apiResponse.forecast = "null"
        /\ ~PrimarySucceeded =>
            /\ ~apiResponse.success
            /\ apiResponse.error # ""
            /\ apiResponse.status \in 400..599
            /\ apiResponse.result = "absent"
            /\ apiResponse.forecast = "absent"
        /\ (Missing(apiReq.lat) \/ Missing(apiReq.lng)) =>
            /\ apiResponse.status = 400
            /\ apiCalls = <<>>

\* The UV call succeeded and the forecast call threw: the response is the
\* success with forecast null.
C30_Witness ==
    /\ apiPc = "done"
    /\ apiPrimary = [kind |-> "response", status |-> 200, body |-> "data"]
    /\ apiForecast.kind = "throw"
    /\ Len(apiCalls) = 2
    /\ apiResponse = [status |-> 200, success |-> TRUE, error |-> "",
                      result |-> "data", forecast |-> "null"]

====
